---- MODULE Spec2Model ----
(***************************************************************************)
(* Block / SsTable core of mini-lsm: BlockBuilder, Block (encode/decode),  *)
(* BlockIterator, SsTableBuilder, SsTable (read_block) and                 *)
(* SsTableIterator.  Byte strings are sequences of naturals in 0..255.     *)
(* A Rust panic (failed assert!, index out of bounds, usize underflow) is  *)
(* modelled as the result record Panic; the action that meets it moves the *)
(* machine to the phase "panic".                                           *)
(***************************************************************************)
EXTENDS Integers, Sequences, FiniteSets, TLC

VARIABLES
    phase,      \* table machine: "init", "building", "built", "panic"
    builder,    \* the SsTableBuilder
    table,      \* the SsTable returned by build
    iter,       \* the SsTableIterator
    added,      \* history: the pairs handed to SsTableBuilder::add, in order
    blocks,     \* history: the Blocks the builder finalized, in order
    scan,       \* history: the forward scan in progress
    last,       \* history: the last table-level operation and its pre-state
    bphase,     \* block machine: "init", "building", "built", "panic"
    bb,         \* the BlockBuilder
    blk,        \* the Block returned by BlockBuilder::build
    bit,        \* the BlockIterator over blk
    badded,     \* history: the pairs the BlockBuilder accepted, in order
    blast,      \* history: the last block-level operation and its pre-state
    its,        \* pair machine: two SsTableIterators over table
    bits        \* pair machine: two BlockIterators over blk

tvars == <<phase, builder, table, iter, added, blocks, scan, last>>
bvars == <<bphase, bb, blk, bit, badded, blast>>
pvars == <<its, bits>>
vars == <<phase, builder, table, iter, added, blocks, scan, last,
          bphase, bb, blk, bit, badded, blast, its, bits>>

----------------------------------------------------------------------------
(* Bounds and input sets *)

MaxAdds == 3        \* accepted add calls per builder
TinyBlock == 7      \* a target size that fits one entry of at most 1 byte
SmallBlock == 18    \* a target size that fits two or three small entries
BigLen == 4186      \* length of the large value
WideLen == 65530    \* length of the value that takes an entry to 2^16 bytes
WideTarget == 65600 \* a target size that fits the wide entry and small ones

KEY_LEN_SIZE == 2
VAL_LEN_SIZE == 2
OFFSET_SIZE == 2
SLOT == 4196        \* the literal 4196 of table.rs and table/builder.rs

Keys == {<<>>, <<1>>, <<1, 2>>, <<2>>, <<2, 1>>}
SmallValues == {<<>>, <<7>>}
BigKey == <<1, 2>>
BigVal == [i \in 1..BigLen |-> 9]
LongKey == <<2, 1>>
LongVal == [i \in 1..(BigLen + 1) |-> 9]
WideKey == <<1, 2>>
WideVal == [i \in 1..WideLen |-> 9]
SeekKeys == Keys \cup {<<1, 1>>, <<3>>}

----------------------------------------------------------------------------
(* Results, integers of fixed width, byte strings *)

None == [none |-> TRUE]
Panic == [panic |-> TRUE]
Ok(v) == [panic |-> FALSE, val |-> v]

U16(x) == x % 65536
\* a u32: the offsets of the model stay far below 2^31, where TLC's integers
\* end, so the wrap at 2^32 is never met
U32(x) == x
BE16(x) == <<(x \div 256) % 256, x % 256>>
BE32(x) == <<(x \div 16777216) % 256, (x \div 65536) % 256, (x \div 256) % 256, x % 256>>

\* bytes [from, to) of a 0-based slice, as Rust's s[from..to]
Slice(s, from, to) == SubSeq(s, from + 1, to)

\* a < b for byte slices: unsigned lexicographic, a proper prefix is smaller
LexLess(a, b) ==
    LET m == IF Len(a) < Len(b) THEN Len(a) ELSE Len(b)
        diff == {i \in 1..m : a[i] # b[i]}
    IN  IF diff = {} THEN Len(a) < Len(b)
        ELSE LET i == CHOOSE i \in diff : \A j \in diff : i <= j
             IN  a[i] < b[i]

----------------------------------------------------------------------------
(* block/builder.rs: BlockBuilder *)

BlockBuilderNew(block_size) ==
    [kvs |-> <<>>, current_size |-> 0, target_size |-> block_size]

\* add with the size test after the push: a rejected add leaves its entry behind
BlockBuilderAddPushFirst(b, key, value) ==
    LET pair_size == KEY_LEN_SIZE + VAL_LEN_SIZE + Len(key) + Len(value)
        pushed == [b EXCEPT
                     !.kvs = Append(@, [key |-> key, val |-> value,
                                        total_size |-> U16(pair_size)]),
                     !.current_size = @ + pair_size + OFFSET_SIZE]
    IN  [ret |-> pushed.current_size <= b.target_size, builder |-> pushed]

\* BlockBuilder::add: the return value and the builder after the call
BlockBuilderAdd(b, key, value) ==
    LET pair_size == KEY_LEN_SIZE + VAL_LEN_SIZE + Len(key) + Len(value)
    IN  IF b.current_size + pair_size + OFFSET_SIZE > b.target_size
        THEN [ret |-> FALSE, builder |-> b]
        ELSE [ret |-> TRUE,
              builder |-> [b EXCEPT
                             !.kvs = Append(@, [key |-> key, val |-> value,
                                                total_size |-> U16(pair_size)]),
                             !.current_size = @ + pair_size + OFFSET_SIZE]]

BlockBuilderIsEmpty(b) == b.kvs = <<>>

BlockBuilderSize(b) == b.current_size + 2

\* the on-disk form of one buffered entry, as build writes it
EntryBytes(kv) ==
    BE16(U16(Len(kv.key))) \o kv.key \o BE16(U16(Len(kv.val))) \o kv.val

RECURSIVE BuildData(_, _)
BuildData(kvs, n) ==
    IF n = 0 THEN <<>> ELSE BuildData(kvs, n - 1) \o EntryBytes(kvs[n])

\* cur before entry n (1-based): the u16 sum of the total_size of entries
\* 1..n-1.  No input of the model brings that sum itself to 2^16, where a
\* build with overflow checks panics instead of wrapping.
RECURSIVE BuildCur(_, _)
BuildCur(kvs, n) ==
    IF n <= 1 THEN 0 ELSE U16(BuildCur(kvs, n - 1) + kvs[n - 1].total_size)

BlockBuilderBuild(b) ==
    [data |-> BuildData(b.kvs, Len(b.kvs)),
     offsets |-> [i \in 1..Len(b.kvs) |-> BuildCur(b.kvs, i)]]

----------------------------------------------------------------------------
(* block.rs: Block *)

BlockEncode(block) ==
    LET n == Len(block.offsets)
        rev == [j \in 1..(2 * n) |->
                  LET off == block.offsets[n - ((j - 1) \div 2)]
                  IN  IF j % 2 = 1 THEN (off \div 256) % 256 ELSE off % 256]
    IN  block.data \o rev \o BE16(U16(n))

\* decode that reads the offset region front to back
BlockDecodeForward(data) ==
    LET size == Len(data)
        num == IF size < 2 THEN 0 ELSE data[size - 1] * 256 + data[size]
    IN  IF size < 2 \/ size < 2 + 2 * num THEN Panic
        ELSE Ok([data |-> Slice(data, 0, size - 2 - 2 * num),
                 offsets |-> [i \in 1..num |->
                                data[size - 2 - 2 * num + 2 * i - 1] * 256
                                  + data[size - 2 - 2 * num + 2 * i]]])

\* Block::decode; the index arithmetic panics when the buffer is shorter than
\* 2 bytes or than 2 + 2 * num_of_elements bytes
BlockDecode(data) ==
    LET size == Len(data)
        num == IF size < 2 THEN 0 ELSE data[size - 1] * 256 + data[size]
    IN  IF size < 2 \/ size < 2 + 2 * num THEN Panic
        ELSE Ok([data |-> Slice(data, 0, size - 2 - 2 * num),
                 offsets |-> [i \in 1..num |->
                                data[size - 3 - 2 * (i - 1)] * 256
                                  + data[size - 2 - 2 * (i - 1)]]])

----------------------------------------------------------------------------
(* block/iterator.rs: BlockIterator *)

NumEntries(block) == Len(block.offsets)

\* the key and value of entry i (0-based), decoded as every method of the
\* iterator decodes them; a read outside data panics
EntryAt(block, i) ==
    IF i >= Len(block.offsets) THEN Panic
    ELSE
    LET offset == block.offsets[i + 1]
        n == Len(block.data)
    IN  IF offset + 2 > n THEN Panic
        ELSE
        LET key_len == block.data[offset + 1] * 256 + block.data[offset + 2]
            val_offset == U16(offset + 2 + key_len)
        IN  IF offset + 2 + key_len > n \/ val_offset + 2 > n THEN Panic
            ELSE
            LET val_len == block.data[val_offset + 1] * 256 + block.data[val_offset + 2]
            IN  IF val_offset + 2 + val_len > n THEN Panic
                ELSE Ok([key |-> Slice(block.data, offset + 2, offset + 2 + key_len),
                         value |-> Slice(block.data, val_offset + 2,
                                         val_offset + 2 + val_len)])

BlockIteratorNew(block) ==
    [block |-> block, key |-> <<>>, value |-> <<>>, idx |-> 0]

BlockIterAt(block, i) ==
    LET e == EntryAt(block, i)
    IN  IF e.panic THEN Panic
        ELSE Ok([block |-> block, key |-> e.val.key, value |-> e.val.value, idx |-> i])

BlockCreateAndSeekToFirst(block) == BlockIterAt(block, 0)

BlockSeekToFirst(it) == BlockIterAt(it.block, 0)

\* a search that drops the tested entry from the upper half as well
RECURSIVE BlockSearchSkip(_, _, _, _)
BlockSearchSkip(block, key, low, high) ==
    IF low < high
    THEN LET mid == (low + high) \div 2
             e == EntryAt(block, mid)
         IN  IF e.panic THEN Panic
             ELSE IF LexLess(e.val.key, key)
                  THEN BlockSearchSkip(block, key, mid + 1, high)
             ELSE IF e.val.key = key THEN Ok(mid)
             ELSE BlockSearchSkip(block, key, low, mid - 1)
    ELSE Ok(low)

\* the while loop of seek_to_key and create_and_seek_to_key: the index the
\* cursor is put on (len when every key is smaller)
RECURSIVE BlockSearch(_, _, _, _)
BlockSearch(block, key, low, high) ==
    IF low < high
    THEN LET mid == (low + high) \div 2
             e == EntryAt(block, mid)
         IN  IF e.panic THEN Panic
             ELSE IF LexLess(e.val.key, key)
                  THEN BlockSearch(block, key, mid + 1, high)
             ELSE IF e.val.key = key THEN Ok(mid)
             ELSE BlockSearch(block, key, low, mid)
    ELSE Ok(low)

BlockCreateAndSeekToKey(block, key) ==
    LET len == Len(block.offsets)
        r == BlockSearch(block, key, 0, len)
    IN  IF r.panic THEN Panic
        ELSE IF r.val = len
             THEN Ok([block |-> block, key |-> <<>>, value |-> <<>>, idx |-> len])
        ELSE BlockIterAt(block, r.val)

BlockSeekToKey(it, key) ==
    LET len == Len(it.block.offsets)
        r == BlockSearch(it.block, key, 0, len)
    IN  IF r.panic THEN Panic
        ELSE IF r.val = len
             THEN Ok([it EXCEPT !.key = <<>>, !.value = <<>>, !.idx = len])
        ELSE BlockIterAt(it.block, r.val)

BlockKey(it) == it.key

BlockValue(it) == it.value

BlockIsValid(it) == Len(it.key) # 0

BlockNext(it) ==
    LET idx == it.idx + 1
    IN  IF idx = Len(it.block.offsets)
        THEN Ok([it EXCEPT !.key = <<>>, !.value = <<>>, !.idx = idx])
        ELSE BlockIterAt(it.block, idx)

----------------------------------------------------------------------------
(* table.rs: FileObject, SsTable::read_block *)

\* The byte image of a FileObject is kept as a sequence of runs, each a byte
\* string followed by `pad` zero bytes; the image is the concatenation of
\* the runs.  FileSize is FileObject::size.
RECURSIVE FileSizeUpTo(_, _)
FileSizeUpTo(file, n) ==
    IF n = 0 THEN 0
    ELSE FileSizeUpTo(file, n - 1) + Len(file[n].bytes) + file[n].pad

FileSize(file) == FileSizeUpTo(file, Len(file))

\* the byte at position p (0-based) of the image, looked up from run n on
RECURSIVE FileByteFrom(_, _, _)
FileByteFrom(file, n, p) ==
    IF p < Len(file[n].bytes) THEN file[n].bytes[p + 1]
    ELSE IF p < Len(file[n].bytes) + file[n].pad THEN 0
    ELSE FileByteFrom(file, n + 1, p - Len(file[n].bytes) - file[n].pad)

\* FileObject::read: the slice self.0[offset..offset + len] panics past the end
FileRead(file, offset, len) ==
    IF len < 0 \/ offset + len > FileSize(file) THEN Panic
    ELSE Ok([i \in 1..len |-> FileByteFrom(file, 1, offset + i - 1)])

SsTableReadBlock(t, block_idx) ==
    IF block_idx >= Len(t.block_metas) THEN Panic
    ELSE LET block_offset == t.block_metas[block_idx + 1].offset
             start == (block_offset \div SLOT) * SLOT
             r == FileRead(t.file, start, block_offset - start)
         IN  IF r.panic THEN Panic ELSE BlockDecode(r.val)

\* SsTable::find_block_idx and SsTable::num_of_blocks: both bodies are
\* unimplemented!(), which panics on every call
SsTableFindBlockIdx(t, key) == Panic

SsTableNumOfBlocks(t) == Panic

EncodeOneMeta(m) == BE32(m.offset) \o BE16(m.key_len) \o m.first_key

RECURSIVE EncodeBlockMeta(_, _)
EncodeBlockMeta(metas, n) ==
    IF n = 0 THEN <<>> ELSE EncodeBlockMeta(metas, n - 1) \o EncodeOneMeta(metas[n])

\* a decoder that pushes each meta in front of the ones decoded before it
RECURSIVE DecodeBlockMetaReversed(_)
DecodeBlockMetaReversed(buf) ==
    IF buf = <<>> THEN Ok(<<>>)
    ELSE IF Len(buf) < 6 THEN Panic
    ELSE
    LET offset == ((buf[1] * 256 + buf[2]) * 256 + buf[3]) * 256 + buf[4]
        key_len == buf[5] * 256 + buf[6]
    IN  IF Len(buf) < 6 + key_len THEN Panic
        ELSE
        LET rest == DecodeBlockMetaReversed(SubSeq(buf, 7 + key_len, Len(buf)))
        IN  IF rest.panic THEN Panic
            ELSE Ok(rest.val \o <<[offset |-> offset, key_len |-> key_len,
                                   first_key |-> SubSeq(buf, 7, 6 + key_len)]>>)

\* BlockMeta::decode_block_meta: get_u32, get_u16 and copy_to_bytes panic
\* when the buffer holds fewer bytes than they take
RECURSIVE DecodeBlockMeta(_)
DecodeBlockMeta(buf) ==
    IF buf = <<>> THEN Ok(<<>>)
    ELSE IF Len(buf) < 6 THEN Panic
    ELSE
    LET offset == ((buf[1] * 256 + buf[2]) * 256 + buf[3]) * 256 + buf[4]
        key_len == buf[5] * 256 + buf[6]
    IN  IF Len(buf) < 6 + key_len THEN Panic
        ELSE
        LET rest == DecodeBlockMeta(SubSeq(buf, 7 + key_len, Len(buf)))
        IN  IF rest.panic THEN Panic
            ELSE Ok(<<[offset |-> offset, key_len |-> key_len,
                       first_key |-> SubSeq(buf, 7, 6 + key_len)]>> \o rest.val)

\* SsTable::open: file.size() - 4 and file.size() - 4 - block_meta_offset
\* underflow, or the slices of read fall outside the image, for a file
\* shorter than 4 bytes or a footer greater than size - 4
SsTableOpen(file) ==
    LET size == FileSize(file)
        footer == FileRead(file, size - 4, 4)
    IN  IF size < 4 \/ footer.panic THEN Panic
        ELSE
        LET f == footer.val
            block_meta_offset == ((f[1] * 256 + f[2]) * 256 + f[3]) * 256 + f[4]
            buf == FileRead(file, block_meta_offset, size - 4 - block_meta_offset)
            metas == IF buf.panic THEN Panic ELSE DecodeBlockMeta(buf.val)
        IN  IF metas.panic THEN Panic
            ELSE Ok([file |-> file, block_metas |-> metas.val,
                     block_meta_offset |-> block_meta_offset])

----------------------------------------------------------------------------
(* table/builder.rs: SsTableBuilder *)

SsTableBuilderNew(block_size) ==
    IF block_size > SLOT THEN Panic
    ELSE Ok([meta |-> <<>>, data_blocks |-> <<>>,
             cur_block |-> BlockBuilderNew(block_size),
             cur_start |-> 0, block_size |-> block_size, first_key |-> <<>>])

MetaOf(b) ==
    [offset |-> U32(b.cur_start + U32(BlockBuilderSize(b.cur_block))),
     key_len |-> U16(Len(b.first_key)),
     first_key |-> b.first_key]

\* the builder once add has closed the current block (lines 50-60): the block
\* built and its meta pushed, a fresh current block, first_key replaced
SsTableBuilderSplit(b, key) ==
    [b EXCEPT !.data_blocks = Append(@, BlockBuilderBuild(b.cur_block)),
              !.meta = Append(@, MetaOf(b)),
              !.first_key = key,
              !.cur_block = BlockBuilderNew(b.block_size)]

\* SsTableBuilder::add; the assert on the add to the fresh block panics, and
\* leaves the builder as SsTableBuilderSplit made it
SsTableBuilderAdd(b, key, value) ==
    LET r == BlockBuilderAdd(b.cur_block, key, value)
    IN  IF r.ret
        THEN Ok([b EXCEPT !.cur_block = r.builder,
                          !.first_key = IF @ = <<>> THEN key ELSE @])
        ELSE LET split == SsTableBuilderSplit(b, key)
                 fresh == BlockBuilderAdd(split.cur_block, key, value)
             IN  IF ~fresh.ret THEN Panic
                 ELSE Ok([split EXCEPT !.cur_block = fresh.builder,
                                       !.cur_start = U32(@ + SLOT)])

\* SsTableBuilder::estimated_size; `is_empty() as usize` is 1 for an empty
\* current block and 0 otherwise
SsTableBuilderEstimatedSize(b) ==
    Len(b.data_blocks) * SLOT
      + (IF BlockBuilderIsEmpty(b.cur_block) THEN 1 ELSE 0) * SLOT

\* one slot of the image, as a run: the encoded block and its zero padding; the length
\* 4196 - data_bytes.len() of the padding vector underflows for a longer block
SlotBytes(block) ==
    LET data_bytes == BlockEncode(block)
    IN  IF Len(data_bytes) > SLOT THEN Panic
        ELSE Ok(<<[bytes |-> data_bytes, pad |-> SLOT - Len(data_bytes)]>>)

RECURSIVE SlotsBytes(_, _)
SlotsBytes(data_blocks, n) ==
    IF n = 0 THEN Ok(<<>>)
    ELSE LET head == SlotsBytes(data_blocks, n - 1)
             slot == SlotBytes(data_blocks[n])
         IN  IF head.panic \/ slot.panic THEN Panic
             ELSE Ok(head.val \o slot.val)

SsTableBuilderBuild(b) ==
    LET slots == SlotsBytes(b.data_blocks, Len(b.data_blocks))
        open == ~BlockBuilderIsEmpty(b.cur_block)
        cur == IF open THEN SlotBytes(BlockBuilderBuild(b.cur_block)) ELSE Ok(<<>>)
        block_meta_offset == IF open THEN U32(b.cur_start + SLOT) ELSE b.cur_start
        meta == IF open THEN Append(b.meta, MetaOf(b)) ELSE b.meta
    IN  IF slots.panic \/ cur.panic THEN Panic
        ELSE Ok([file |-> slots.val \o cur.val
                            \o <<[bytes |-> EncodeBlockMeta(meta, Len(meta))
                                              \o BE32(block_meta_offset),
                                   pad |-> 0]>>,
                 block_metas |-> meta,
                 block_meta_offset |-> block_meta_offset])

\* the blocks a builder has finalized and the one build finalizes, in order
FinalizedBlocks(b) ==
    IF BlockBuilderIsEmpty(b.cur_block) THEN b.data_blocks
    ELSE Append(b.data_blocks, BlockBuilderBuild(b.cur_block))

----------------------------------------------------------------------------
(* table/iterator.rs: SsTableIterator *)

\* the while loop of seek_to_key: the first index whose first_key is > key
RECURSIVE MetaSearch(_, _, _, _)
MetaSearch(metas, key, low, high) ==
    IF low < high
    THEN LET mid == (low + high) \div 2
         IN  IF LexLess(key, metas[mid + 1].first_key)
             THEN MetaSearch(metas, key, low, mid)
             ELSE MetaSearch(metas, key, mid + 1, high)
    ELSE low

\* the SsTableIterator on block block_idx around a positioned BlockIterator
IterOn(block_idx, positioned) ==
    IF positioned.panic THEN Panic
    ELSE Ok([block_idx |-> block_idx, cur_block_iterator |-> positioned.val])

FirstOf(t, block_idx) ==
    LET block == SsTableReadBlock(t, block_idx)
    IN  IF block.panic THEN Panic ELSE BlockCreateAndSeekToFirst(block.val)

SsTableCreateAndSeekToFirst(t) == IterOn(0, FirstOf(t, 0))

SsTableSeekToFirst(t, it) == IterOn(0, FirstOf(t, 0))

SsTableCreateAndSeekToKey(t, key) ==
    LET low == MetaSearch(t.block_metas, key, 0, Len(t.block_metas))
    IN  IF low = 0 THEN SsTableCreateAndSeekToFirst(t)
        ELSE
        LET block == SsTableReadBlock(t, low - 1)
            bi == IF block.panic THEN Panic
                  ELSE BlockCreateAndSeekToKey(block.val, key)
        IN  IF bi.panic THEN Panic
            ELSE IF ~BlockIsValid(bi.val)
                 THEN IF low >= Len(t.block_metas)
                      THEN Ok([block_idx |-> low, cur_block_iterator |-> bi.val])
                      ELSE IterOn(low, FirstOf(t, low))
            ELSE Ok([block_idx |-> low - 1, cur_block_iterator |-> bi.val])

SsTableSeekToKey(t, it, key) ==
    LET low == MetaSearch(t.block_metas, key, 0, Len(t.block_metas))
    IN  IF low = 0 THEN SsTableSeekToFirst(t, it)
        ELSE
        LET block == SsTableReadBlock(t, low - 1)
            bi == IF block.panic THEN Panic
                  ELSE BlockCreateAndSeekToKey(block.val, key)
        IN  IF bi.panic THEN Panic
            ELSE IF ~BlockIsValid(bi.val)
                 THEN IF low >= Len(t.block_metas)
                      THEN Ok([block_idx |-> low - 1, cur_block_iterator |-> bi.val])
                      ELSE IterOn(low, FirstOf(t, low))
            ELSE Ok([block_idx |-> low - 1, cur_block_iterator |-> bi.val])

SsTableKey(it) == BlockKey(it.cur_block_iterator)

SsTableValue(it) == BlockValue(it.cur_block_iterator)

SsTableIsValid(it) == BlockIsValid(it.cur_block_iterator)

\* next that reopens the block it is on instead of the one after it
SsTableNextSameBlock(t, it) ==
    LET bi == BlockNext(it.cur_block_iterator)
    IN  IF bi.panic THEN Panic
        ELSE IF ~BlockIsValid(bi.val)
             THEN IF Len(t.block_metas) = 0 THEN Panic
                  ELSE IF it.block_idx >= Len(t.block_metas) - 1
                       THEN Ok([it EXCEPT !.cur_block_iterator = bi.val])
                  ELSE IterOn(it.block_idx + 1, FirstOf(t, it.block_idx))
        ELSE Ok([it EXCEPT !.cur_block_iterator = bi.val])

\* StorageIterator::next; block_metas.len() - 1 underflows for a table
\* without blocks
SsTableNext(t, it) ==
    LET bi == BlockNext(it.cur_block_iterator)
    IN  IF bi.panic THEN Panic
        ELSE IF ~BlockIsValid(bi.val)
             THEN IF Len(t.block_metas) = 0 THEN Panic
                  ELSE IF it.block_idx >= Len(t.block_metas) - 1
                       THEN Ok([it EXCEPT !.cur_block_iterator = bi.val])
                  ELSE IterOn(it.block_idx + 1, FirstOf(t, it.block_idx + 1))
        ELSE Ok([it EXCEPT !.cur_block_iterator = bi.val])

----------------------------------------------------------------------------
(* The block machine: one BlockBuilder, the Block it builds, one           *)
(* BlockIterator over that Block.  Keys reach add in strictly ascending    *)
(* order (the caller's contract).                                          *)

BlockTargets == {TinyBlock, SmallBlock, SLOT}
SmallPairs == Keys \X SmallValues

NoOp == [op |-> "none"]

BInit ==
    /\ bphase = "init"
    /\ bb = None
    /\ blk = None
    /\ bit = None
    /\ badded = <<>>
    /\ blast = NoOp

TInit ==
    /\ phase = "init"
    /\ builder = None
    /\ table = None
    /\ iter = None
    /\ added = <<>>
    /\ blocks = <<>>
    /\ scan = None
    /\ last = NoOp

PInit ==
    /\ its = <<None, None>>
    /\ bits = <<None, None>>

Init == TInit /\ BInit /\ PInit

Ascending(seq, key) == IF seq = <<>> THEN TRUE ELSE LexLess(seq[Len(seq)][1], key)

BNew(target) ==
    /\ bphase = "init"
    /\ bphase' = "building"
    /\ bb' = BlockBuilderNew(target)
    /\ blast' = [op |-> "new"]
    /\ UNCHANGED <<blk, bit, badded>>
    /\ UNCHANGED <<tvars, pvars>>

BAdd(key, value) ==
    /\ bphase = "building"
    /\ Len(badded) < MaxAdds
    /\ Ascending(badded, key)
    /\ LET r == BlockBuilderAdd(bb, key, value)
       IN  /\ bb' = r.builder
           /\ badded' = IF r.ret THEN Append(badded, <<key, value>>) ELSE badded
           /\ blast' = [op |-> "add", key |-> key, value |-> value,
                        ret |-> r.ret, pre |-> bb]
    /\ UNCHANGED <<bphase, blk, bit>>
    /\ UNCHANGED <<tvars, pvars>>

BBuild ==
    /\ bphase = "building"
    /\ bphase' = "built"
    /\ blk' = BlockBuilderBuild(bb)
    /\ bb' = None
    /\ blast' = [op |-> "build", pre |-> bb]
    /\ UNCHANGED <<bit, badded>>
    /\ UNCHANGED <<tvars, pvars>>

BEncodeDecode ==
    /\ bphase = "built"
    /\ blast' = [op |-> "encode_decode", enc |-> BlockEncode(blk),
                 dec |-> BlockDecode(BlockEncode(blk))]
    /\ UNCHANGED <<bphase, bb, blk, bit, badded>>
    /\ UNCHANGED <<tvars, pvars>>

\* Block::decode of the last n bytes of the encoded block
ShortLens == 0..3

BDecode(n) ==
    /\ bphase = "built"
    /\ LET enc == BlockEncode(blk)
           buf == SubSeq(enc, Len(enc) - n + 1, Len(enc))
           r == BlockDecode(buf)
       IN  /\ n <= Len(enc)
           /\ bphase' = IF r.panic THEN "panic" ELSE bphase
           /\ blast' = [op |-> "decode", buf |-> buf, res |-> r]
    /\ UNCHANGED <<bb, blk, bit, badded>>
    /\ UNCHANGED <<tvars, pvars>>

\* the iterator an operation returns, or the panic it ends in
BSet(r, op) ==
    /\ blast' = op
    /\ IF r.panic
       THEN bphase' = "panic" /\ bit' = bit
       ELSE bphase' = bphase /\ bit' = r.val
    /\ UNCHANGED <<bb, blk, badded>>
    /\ UNCHANGED <<tvars, pvars>>

BIterNew ==
    /\ bphase = "built"
    /\ BSet(Ok(BlockIteratorNew(blk)), [op |-> "iter_new"])

BIterCreateAndSeekToFirst ==
    /\ bphase = "built"
    /\ BSet(BlockCreateAndSeekToFirst(blk), [op |-> "create_and_seek_to_first"])

BIterCreateAndSeekToKey(key) ==
    /\ bphase = "built"
    /\ BSet(BlockCreateAndSeekToKey(blk, key),
            [op |-> "create_and_seek_to_key", key |-> key])

BIterSeekToFirst ==
    /\ bphase = "built"
    /\ bit # None
    /\ BSet(BlockSeekToFirst(bit), [op |-> "seek_to_first", pre |-> bit])

BIterSeekToKey(key) ==
    /\ bphase = "built"
    /\ bit # None
    /\ BSet(BlockSeekToKey(bit, key), [op |-> "seek_to_key", key |-> key, pre |-> bit])

BIterNext ==
    /\ bphase = "built"
    /\ bit # None
    /\ BSet(BlockNext(bit), [op |-> "next", pre |-> bit])

BNext ==
    \/ \E t \in BlockTargets : BNew(t)
    \/ \E p \in SmallPairs : BAdd(p[1], p[2])
    \/ BBuild
    \/ BEncodeDecode
    \/ \E n \in ShortLens : BDecode(n)
    \/ BIterNew
    \/ BIterCreateAndSeekToFirst
    \/ \E k \in SeekKeys : BIterCreateAndSeekToKey(k)
    \/ BIterSeekToFirst
    \/ \E k \in SeekKeys : BIterSeekToKey(k)
    \/ BIterNext

BlockSpec == Init /\ [][BNext]_vars

\* The block builder alone, with a target size beyond the 16-bit range and a
\* pair whose entry is 2^16 bytes long among its inputs.
WideTargets == {TinyBlock, SmallBlock, WideTarget}
WidePairs == SmallPairs \cup {<<WideKey, WideVal>>}

WNext ==
    \/ \E t \in WideTargets : BNew(t)
    \/ \E p \in WidePairs : BAdd(p[1], p[2])
    \/ BBuild

WideSpec == Init /\ [][WNext]_vars

----------------------------------------------------------------------------
(* The table machine: one SsTableBuilder fed ascending keys, the SsTable   *)
(* it builds, one SsTableIterator over that table.                         *)

BlockSizes == {SmallBlock, SLOT, SLOT + 1}
Pairs == SmallPairs \cup {<<BigKey, BigVal>>, <<LongKey, LongVal>>}

TNew(block_size) ==
    /\ phase = "init"
    /\ LET r == SsTableBuilderNew(block_size)
       IN  IF r.panic
           THEN phase' = "panic" /\ builder' = builder
           ELSE phase' = "building" /\ builder' = r.val
    /\ last' = [op |-> "new", block_size |-> block_size]
    /\ UNCHANGED <<table, iter, added, blocks, scan>>
    /\ UNCHANGED <<bvars, pvars>>

TAdd(key, value) ==
    /\ phase = "building"
    /\ Len(added) < MaxAdds
    /\ Ascending(added, key)
    /\ LET r == SsTableBuilderAdd(builder, key, value)
       IN  IF r.panic
           THEN /\ phase' = "panic"
                /\ builder' = SsTableBuilderSplit(builder, key)
                /\ added' = added
           ELSE /\ phase' = phase
                /\ builder' = r.val
                /\ added' = Append(added, <<key, value>>)
    /\ last' = [op |-> "add", key |-> key, value |-> value]
    /\ UNCHANGED <<table, iter, blocks, scan>>
    /\ UNCHANGED <<bvars, pvars>>

TEstimatedSize ==
    /\ phase = "building"
    /\ last' = [op |-> "estimated_size", res |-> SsTableBuilderEstimatedSize(builder)]
    /\ UNCHANGED <<phase, builder, table, iter, added, blocks, scan>>
    /\ UNCHANGED <<bvars, pvars>>

TBuild ==
    /\ phase = "building"
    /\ LET r == SsTableBuilderBuild(builder)
       IN  IF r.panic
           THEN phase' = "panic" /\ UNCHANGED <<builder, table, blocks>>
           ELSE /\ phase' = "built"
                /\ table' = r.val
                /\ blocks' = FinalizedBlocks(builder)
                /\ builder' = None
    /\ last' = [op |-> "build"]
    /\ UNCHANGED <<iter, added, scan>>
    /\ UNCHANGED <<bvars, pvars>>

TReadBlock(block_idx) ==
    /\ phase = "built"
    /\ block_idx < Len(table.block_metas)
    /\ LET r == SsTableReadBlock(table, block_idx)
       IN  /\ phase' = IF r.panic THEN "panic" ELSE phase
           /\ last' = [op |-> "read_block", block_idx |-> block_idx, res |-> r]
    /\ UNCHANGED <<builder, table, iter, added, blocks, scan>>
    /\ UNCHANGED <<bvars, pvars>>

\* the images handed to open: the one build wrote, that image with a footer
\* of size - 3, and that image without the last byte of its meta region
ImageKinds == {"intact", "footer", "cut"}

Image(file, kind) ==
    LET n == Len(file)
        tail == file[n].bytes
        m == Len(tail) - 4
    IN  IF kind = "footer"
        THEN [file EXCEPT ![n].bytes = SubSeq(tail, 1, m) \o BE32(FileSize(file) - 3)]
        ELSE IF kind = "cut" /\ m > 0
        THEN [file EXCEPT ![n].bytes = SubSeq(tail, 1, m - 1) \o SubSeq(tail, m + 1, m + 4)]
        ELSE file

TOpen(kind) ==
    /\ phase = "built"
    /\ last' = [op |-> "open", kind |-> kind,
                res |-> SsTableOpen(Image(table.file, kind))]
    /\ UNCHANGED <<phase, builder, table, iter, added, blocks, scan>>
    /\ UNCHANGED <<bvars, pvars>>

TFindBlockIdx(key) ==
    /\ phase = "built"
    /\ LET r == SsTableFindBlockIdx(table, key)
       IN  /\ phase' = IF r.panic THEN "panic" ELSE phase
           /\ last' = [op |-> "find_block_idx", key |-> key, res |-> r]
    /\ UNCHANGED <<builder, table, iter, added, blocks, scan>>
    /\ UNCHANGED <<bvars, pvars>>

TNumOfBlocks ==
    /\ phase = "built"
    /\ LET r == SsTableNumOfBlocks(table)
       IN  /\ phase' = IF r.panic THEN "panic" ELSE phase
           /\ last' = [op |-> "num_of_blocks", res |-> r]
    /\ UNCHANGED <<builder, table, iter, added, blocks, scan>>
    /\ UNCHANGED <<bvars, pvars>>

\* the iterator an operation returns, or the panic it ends in
TSet(r, op, sc) ==
    /\ last' = op
    /\ IF r.panic
       THEN phase' = "panic" /\ iter' = iter /\ scan' = scan
       ELSE phase' = phase /\ iter' = r.val /\ scan' = sc
    /\ UNCHANGED <<builder, table, added, blocks>>
    /\ UNCHANGED <<bvars, pvars>>

\* a scan starts on the first entry
ScanStart(r) ==
    IF r.panic THEN None
    ELSE IF SsTableIsValid(r.val)
         THEN [out |-> <<<<SsTableKey(r.val), SsTableValue(r.val)>>>>, done |-> FALSE]
    ELSE [out |-> <<>>, done |-> TRUE]

\* a scan goes on with next for as long as the iterator is valid
ScanStep(r) ==
    IF scan = None \/ r.panic THEN None
    ELSE IF scan.done THEN scan
    ELSE IF SsTableIsValid(r.val)
         THEN [scan EXCEPT !.out = Append(@, <<SsTableKey(r.val), SsTableValue(r.val)>>)]
    ELSE [scan EXCEPT !.done = TRUE]

TCreateAndSeekToFirst ==
    /\ phase = "built"
    /\ LET r == SsTableCreateAndSeekToFirst(table)
       IN  TSet(r, [op |-> "create_and_seek_to_first"], ScanStart(r))

TSeekToFirst ==
    /\ phase = "built"
    /\ iter # None
    /\ LET r == SsTableSeekToFirst(table, iter)
       IN  TSet(r, [op |-> "seek_to_first", pre |-> iter], ScanStart(r))

TCreateAndSeekToKey(key) ==
    /\ phase = "built"
    /\ TSet(SsTableCreateAndSeekToKey(table, key),
            [op |-> "create_and_seek_to_key", key |-> key], None)

TSeekToKey(key) ==
    /\ phase = "built"
    /\ iter # None
    /\ TSet(SsTableSeekToKey(table, iter, key),
            [op |-> "seek_to_key", key |-> key, pre |-> iter], None)

TIterNext ==
    /\ phase = "built"
    /\ iter # None
    /\ LET r == SsTableNext(table, iter)
       IN  TSet(r, [op |-> "next", pre |-> iter], ScanStep(r))

TNext ==
    \/ \E bs \in BlockSizes : TNew(bs)
    \/ \E p \in Pairs : TAdd(p[1], p[2])
    \/ TEstimatedSize
    \/ TBuild
    \/ \E i \in 0..MaxAdds : TReadBlock(i)
    \/ \E kind \in ImageKinds : TOpen(kind)
    \/ \E k \in SeekKeys : TFindBlockIdx(k)
    \/ TNumOfBlocks
    \/ TCreateAndSeekToFirst
    \/ TSeekToFirst
    \/ \E k \in SeekKeys : TCreateAndSeekToKey(k)
    \/ \E k \in SeekKeys : TSeekToKey(k)
    \/ TIterNext

Spec == Init /\ [][TNext]_vars

----------------------------------------------------------------------------
(* The pair machine: two SsTableIterators over one SsTable, or two         *)
(* BlockIterators over one Block, each driven by its own thread; the       *)
(* operations of the two interleave in every order.  A panic ends the      *)
(* thread of the iterator it happens in, not the other one.                *)

Iters == 1..2
PairKeys == {<<1>>, <<2>>, <<3>>}

\* an iterator that exists and whose thread has not panicked
Live(it) == "panic" \notin DOMAIN it /\ "none" \notin DOMAIN it

\* what iterator w holds after an operation of its own with result r: each
\* iterator owns its fields, the other one keeps its
PairSetShared(pair, w, r) ==
    [i \in Iters |-> IF r.panic THEN Panic ELSE r.val]

PairSet(pair, w, r) ==
    [pair EXCEPT ![w] = IF r.panic THEN Panic ELSE r.val]

PTNew(block_size) == bphase = "init" /\ TNew(block_size)

PTAdd(key, value) == bphase = "init" /\ TAdd(key, value)

PTBuild == bphase = "init" /\ TBuild

PTCreateAndSeekToFirst(w) ==
    /\ phase = "built"
    /\ its[w] = None
    /\ its' = PairSet(its, w, SsTableCreateAndSeekToFirst(table))
    /\ UNCHANGED <<tvars, bvars, bits>>

PTSeekToFirst(w) ==
    /\ phase = "built"
    /\ Live(its[w])
    /\ its' = PairSet(its, w, SsTableSeekToFirst(table, its[w]))
    /\ UNCHANGED <<tvars, bvars, bits>>

PTSeekToKey(w, key) ==
    /\ phase = "built"
    /\ Live(its[w])
    /\ its' = PairSet(its, w, SsTableSeekToKey(table, its[w], key))
    /\ UNCHANGED <<tvars, bvars, bits>>

PTIterNext(w) ==
    /\ phase = "built"
    /\ Live(its[w])
    /\ its' = PairSet(its, w, SsTableNext(table, its[w]))
    /\ UNCHANGED <<tvars, bvars, bits>>

PBNew(target) == phase = "init" /\ BNew(target)

PBAdd(key, value) == phase = "init" /\ BAdd(key, value)

PBBuild == phase = "init" /\ BBuild

PBCreateAndSeekToFirst(w) ==
    /\ bphase = "built"
    /\ bits[w] = None
    /\ bits' = PairSet(bits, w, BlockCreateAndSeekToFirst(blk))
    /\ UNCHANGED <<tvars, bvars, its>>

PBSeekToFirst(w) ==
    /\ bphase = "built"
    /\ Live(bits[w])
    /\ bits' = PairSet(bits, w, BlockSeekToFirst(bits[w]))
    /\ UNCHANGED <<tvars, bvars, its>>

PBSeekToKey(w, key) ==
    /\ bphase = "built"
    /\ Live(bits[w])
    /\ bits' = PairSet(bits, w, BlockSeekToKey(bits[w], key))
    /\ UNCHANGED <<tvars, bvars, its>>

PBIterNext(w) ==
    /\ bphase = "built"
    /\ Live(bits[w])
    /\ bits' = PairSet(bits, w, BlockNext(bits[w]))
    /\ UNCHANGED <<tvars, bvars, its>>

PNext ==
    \/ \E bs \in BlockSizes : PTNew(bs)
    \/ \E p \in SmallPairs : PTAdd(p[1], p[2])
    \/ PTBuild
    \/ \E w \in Iters : PTCreateAndSeekToFirst(w)
    \/ \E w \in Iters : PTSeekToFirst(w)
    \/ \E w \in Iters, k \in PairKeys : PTSeekToKey(w, k)
    \/ \E w \in Iters : PTIterNext(w)
    \/ \E t \in BlockTargets : PBNew(t)
    \/ \E p \in SmallPairs : PBAdd(p[1], p[2])
    \/ PBBuild
    \/ \E w \in Iters : PBCreateAndSeekToFirst(w)
    \/ \E w \in Iters : PBSeekToFirst(w)
    \/ \E w \in Iters, k \in PairKeys : PBSeekToKey(w, k)
    \/ \E w \in Iters : PBIterNext(w)

PairSpec == Init /\ [][PNext]_vars

----------------------------------------------------------------------------
(* Properties of the block machine *)

\* the 0-based index of the first pair whose key is >= k, Len(pairs) when none
FirstGE(pairs, k) ==
    LET s == {i \in 1..Len(pairs) : ~LexLess(pairs[i][1], k)}
    IN  IF s = {} THEN Len(pairs)
        ELSE (CHOOSE i \in s : \A j \in s : i <= j) - 1

C5_AcceptIffEncodedFits ==
    /\ blast.op = "add" =>
         (blast.ret <=>
            blast.pre.current_size + 2 + Len(blast.key) + 2 + Len(blast.value) + 2 + 2
              <= blast.pre.target_size)
    /\ (bphase = "building" /\ ~BlockBuilderIsEmpty(bb)) =>
         /\ Len(BlockEncode(BlockBuilderBuild(bb))) <= bb.target_size
         /\ BlockBuilderSize(bb) <= bb.target_size

\* C6: an add that returns false leaves the builder as it was: entries,
\* byte counter and target size, hence size(), is_empty() and the block built.
C6_RejectedAddLeavesBuilder ==
    (blast.op = "add" /\ ~blast.ret) =>
        /\ bphase = "building"
        /\ bb = blast.pre
        /\ BlockBuilderSize(bb) = BlockBuilderSize(blast.pre)
        /\ BlockBuilderIsEmpty(bb) = BlockBuilderIsEmpty(blast.pre)
        /\ BlockBuilderBuild(bb) = BlockBuilderBuild(blast.pre)

\* an add rejected by a builder that already holds an entry
C6_Witness ==
    /\ blast.op = "add"
    /\ ~blast.ret
    /\ bphase = "building"
    /\ ~BlockBuilderIsEmpty(bb)

\* the error value the claim has decode return
CorruptBlock == [panic |-> FALSE, err |-> "CorruptBlock"]

\* C14 (as claimed): Block::decode of a buffer shorter than 2 bytes, or shorter
\* than the 2 + 2 * N bytes its entry count N implies, returns the error
\* CorruptBlock: it neither aborts nor returns a Block.
C14_DecodeShortBufferIsError ==
    blast.op = "decode" =>
        LET size == Len(blast.buf)
            short == IF size < 2 THEN TRUE
                     ELSE size < 2 + 2 * (blast.buf[size - 1] * 256 + blast.buf[size])
        IN  short => blast.res = CorruptBlock

\* the byte offset of pair n (1-based) in the data of the pairs laid end to
\* end: 2 + key length + 2 + value length bytes each
RECURSIVE TrueOffset(_, _)
TrueOffset(pairs, n) ==
    IF n <= 1 THEN 0
    ELSE TrueOffset(pairs, n - 1) + 4 + Len(pairs[n - 1][1]) + Len(pairs[n - 1][2])

\* C20 (as claimed): the Block that build returns after the accepted adds has
\* one offset per entry, offsets[0] = 0, offsets strictly increasing, and
\* offsets[N-1] plus the encoded size of the last entry = len(data); every
\* offset is the byte position of its entry, none wrapped at 2^16, for key
\* and value lengths up to 65 535 and every target size.
C20_OffsetsOfBuiltBlock ==
    (bphase = "built" /\ blast.op = "build") =>
        LET N == Len(badded)
        IN  /\ Len(blk.offsets) = N
            /\ N > 0 => blk.offsets[1] = 0
            /\ \A i \in 1..(N - 1) : blk.offsets[i] < blk.offsets[i + 1]
            /\ \A i \in 1..N : blk.offsets[i] = TrueOffset(badded, i)
            /\ N > 0 =>
                 blk.offsets[N] + 4 + Len(badded[N][1]) + Len(badded[N][2])
                   = Len(blk.data)

\* the block holds at least one entry and none has the empty key
ProperBlock == badded # <<>> /\ \A i \in 1..Len(badded) : badded[i][1] # <<>>

\* C22 (as claimed, for a block of N >= 1 entries with non-empty keys): every
\* seek_to_first, seek_to_key and next of a BlockIterator returns, with the
\* index in [0, N], is_valid() true exactly when idx < N, and when valid
\* key() and value() those of entry idx.
C22_InvalidIffExhausted ==
    (ProperBlock /\ bphase \in {"built", "panic"}
       /\ blast.op \in {"seek_to_first", "seek_to_key", "next"}) =>
        /\ bphase = "built"
        /\ bit.idx \in 0..Len(badded)
        /\ BlockIsValid(bit) <=> bit.idx < Len(badded)
        /\ BlockIsValid(bit) =>
             /\ BlockKey(bit) = badded[bit.idx + 1][1]
             /\ BlockValue(bit) = badded[bit.idx + 1][2]

----------------------------------------------------------------------------
(* Properties of the table machine *)

\* the pairs added are at least one and none has the empty key, which the
\* iterators use as the mark of an invalid cursor
ProperKeys == added # <<>> /\ \A i \in 1..Len(added) : added[i][1] # <<>>

\* C1 (as claimed, for a non-empty sequence of non-empty ascending keys): the
\* scan seek_to_first, then next while is_valid, runs to its end without a
\* failure and yields exactly the pairs added, in order.
C1_ScanYieldsAdded ==
    ProperKeys =>
        /\ (phase = "panic" =>
              /\ last.op \notin {"create_and_seek_to_first", "seek_to_first"}
              /\ ~(last.op = "next" /\ scan # None /\ ~scan.done))
        /\ (phase = "built" /\ scan # None /\ scan.done) => scan.out = added

\* C2 (as claimed, for a table of non-empty ascending keys): seek_to_key(k) and
\* create_and_seek_to_key(k) end on the first pair of the table whose key is
\* >= k, and end invalid exactly when there is none.
C2_SeekIsLinearScan ==
    (ProperKeys /\ last.op \in {"seek_to_key", "create_and_seek_to_key"}) =>
        /\ phase = "built"
        /\ LET j == FirstGE(added, last.key)
           IN  IF j < Len(added)
               THEN /\ SsTableIsValid(iter)
                    /\ SsTableKey(iter) = added[j + 1][1]
                    /\ SsTableValue(iter) = added[j + 1][2]
               ELSE ~SsTableIsValid(iter)

\* the iterator is past the last entry of the block it holds
Exhausted(it) ==
    it.cur_block_iterator.idx >= NumEntries(it.cur_block_iterator.block)

\* C7 (as claimed, for a table of non-empty keys): next() on an iterator that is past the last key of the
\* last block, or that seek_to_key left invalid, returns without failure and
\* changes nothing; the index of the block iterator stays within [0, N].
C7_NextPastEndIsNoOp ==
    (ProperKeys /\ last.op = "next" /\ Exhausted(last.pre)) =>
        /\ phase = "built"
        /\ iter = last.pre
        /\ ~SsTableIsValid(iter)
        /\ iter.cur_block_iterator.idx <= NumEntries(iter.cur_block_iterator.block)

\* C8: a next() that returns with the iterator valid has moved to a strictly
\* greater key: to the following entry of the same block, or, from the last
\* entry of block i, to the first entry of block i+1.
C8_NextStrictlyAscending ==
    (phase = "built" /\ last.op = "next" /\ SsTableIsValid(iter)) =>
        LET pbi == last.pre.cur_block_iterator
            cbi == iter.cur_block_iterator
        IN  /\ LexLess(SsTableKey(last.pre), SsTableKey(iter))
            /\ IF pbi.idx + 1 < NumEntries(pbi.block)
               THEN /\ iter.block_idx = last.pre.block_idx
                    /\ cbi.idx = pbi.idx + 1
               ELSE /\ iter.block_idx = last.pre.block_idx + 1
                    /\ cbi.idx = 0
                    /\ cbi.block = blocks[iter.block_idx + 1]
                    /\ SsTableKey(iter) = EntryAt(cbi.block, 0).val.key

\* a next() that crossed from the last key of a block to the block after it
C8_Witness ==
    /\ phase = "built"
    /\ last.op = "next"
    /\ SsTableIsValid(iter)
    /\ SsTableIsValid(last.pre)
    /\ iter.block_idx = last.pre.block_idx + 1

\* C9 (as claimed): read_block(i) reads the bytes [i*S, meta[i].offset) of the
\* file and returns the i-th block the builder finalized, for every block
\* size SsTableBuilder::new accepts.
C9_ReadBlockReturnsBlock ==
    (last.op = "read_block") =>
        LET i == last.block_idx
            end == table.block_metas[i + 1].offset
        IN  /\ ~last.res.panic
            /\ last.res.val = blocks[i + 1]
            /\ FileRead(table.file, i * SLOT, end - i * SLOT)
                 = Ok(BlockEncode(blocks[i + 1]))

\* C10 (as claimed): every finalized block advances the slot start by 4096, and
\* in the image block i fills the 4096 bytes from i * 4096: its encoded bytes,
\* then zeros.
C10_SlotsOf4096 ==
    /\ phase = "building" => builder.cur_start = 4096 * Len(builder.data_blocks)
    /\ phase = "built" =>
         /\ table.block_meta_offset = 4096 * Len(blocks)
         /\ \A i \in 1..Len(blocks) :
              LET enc == BlockEncode(blocks[i])
              IN  FileRead(table.file, (i - 1) * 4096, 4096)
                    = Ok(enc \o [j \in 1..(4096 - Len(enc)) |-> 0])

\* C11 (as claimed, with the slot size the code uses): build ends without a
\* failure for every accepted block size and every add sequence; the table
\* has one meta per slot, and every block's encoded bytes fit inside its
\* slot: block_metas[i].offset <= i * S + S, so the padding length S - len
\* is never negative.
C11_BlocksFitTheirSlots ==
    /\ last.op = "build" => phase = "built"
    /\ phase = "built" =>
         /\ Len(table.block_metas) = Len(blocks)
         /\ table.block_meta_offset = SLOT * Len(blocks)
         /\ \A i \in 1..Len(blocks) :
              /\ table.block_metas[i].offset <= (i - 1) * SLOT + SLOT
              /\ Len(BlockEncode(blocks[i])) <= SLOT

\* the pair alone is more than a block of the builder's block size takes
Oversized(b, key, value) ==
    ~BlockBuilderAdd(BlockBuilderNew(b.block_size), key, value).ret

\* C12 (as claimed): SsTableBuilder::add of a pair that no block of the
\* builder's size takes returns to the caller without aborting, and no block
\* without entries is ever among the finalized blocks or given a BlockMeta:
\* every finalized block has an entry and there is one meta per finalized
\* block.
C12_OversizedAddRejected ==
    /\ (last.op = "add" /\ Oversized(builder, last.key, last.value)) =>
         phase = "building"
    /\ builder # None =>
         /\ Len(builder.meta) = Len(builder.data_blocks)
         /\ \A i \in 1..Len(builder.data_blocks) :
              NumEntries(builder.data_blocks[i]) > 0

\* the error value the claim has open return
CorruptTable == [panic |-> FALSE, err |-> "CorruptTable"]

\* C13 (as claimed): SsTable::open returns to its caller, with a table or with
\* an error, and never fails in another way; it returns a table only for an
\* image whose footer is at most size - 4, whose meta region the decoder
\* consumes whole, and which holds at least one meta entry: the table it
\* returns never has zero blocks.
C13_OpenRejectsCorruptImage ==
    last.op = "open" =>
        /\ ~last.res.panic
        /\ IF last.kind = "intact" /\ table.block_metas # <<>>
           THEN TRUE
           ELSE last.res = CorruptTable
        /\ "val" \in DOMAIN last.res => Len(last.res.val.block_metas) >= 1

\* C15 (as claimed, for a table of non-empty keys): on a table of N >= 1 blocks find_block_idx(k) returns the
\* index j with (j = 0 and k < first_key[0]) or (first_key[j] <= k and
\* (j + 1 = N or k < first_key[j + 1])), and num_of_blocks() returns the
\* length of block_metas.
C15_FindBlockIdx ==
    /\ (ProperKeys /\ last.op = "find_block_idx" /\ table.block_metas # <<>>) =>
         /\ ~last.res.panic
         /\ LET j == last.res.val
                N == Len(table.block_metas)
                k == last.key
            IN  /\ j \in 0..(N - 1)
                /\ IF LexLess(k, table.block_metas[j + 1].first_key)
                   THEN j = 0
                   ELSE IF j + 1 = N THEN TRUE
                        ELSE LexLess(k, table.block_metas[j + 2].first_key)
    /\ (ProperKeys /\ last.op = "num_of_blocks" /\ table.block_metas # <<>>) =>
         last.res = Ok(Len(table.block_metas))

\* C17 (as claimed): in a built table the meta of block i carries as first_key
\* the key of the first entry stored in block i, whatever key that is (the
\* empty key, the shortest, included), and the first_keys of successive
\* metas are strictly ascending.
C17_MetaFirstKey ==
    phase = "built" =>
        /\ Len(table.block_metas) = Len(blocks)
        /\ \A i \in 1..Len(blocks) :
             /\ ~EntryAt(blocks[i], 0).panic
             /\ table.block_metas[i].first_key = EntryAt(blocks[i], 0).val.key
             /\ table.block_metas[i].key_len = Len(table.block_metas[i].first_key)
        /\ \A i \in 1..(Len(blocks) - 1) :
             LexLess(table.block_metas[i].first_key, table.block_metas[i + 1].first_key)

\* C18: SsTable::open of the image build wrote returns a table with the
\* block_metas of the table build returned (offset and first_key of every
\* block, in block order) and with its block_meta_offset, and that offset is
\* the byte right after the slot of the last block: the slots fill the image
\* up to it and the encoded metas and the 4-byte footer follow it.
C18_OpenOfBuiltImage ==
    (last.op = "open" /\ last.kind = "intact") =>
        /\ ~last.res.panic
        /\ LET opened == last.res.val
               n == Len(table.block_metas)
           IN  /\ Len(opened.block_metas) = n
               /\ \A i \in 1..n :
                    /\ opened.block_metas[i].offset = table.block_metas[i].offset
                    /\ opened.block_metas[i].first_key = table.block_metas[i].first_key
               /\ opened.block_meta_offset = table.block_meta_offset
               /\ table.block_meta_offset = FileSizeUpTo(table.file, Len(blocks))
               /\ table.block_meta_offset
                    = FileSize(table.file) - 4 - Len(EncodeBlockMeta(table.block_metas, n))

\* an image of two blocks with different first keys opened
C18_Witness ==
    /\ last.op = "open"
    /\ last.kind = "intact"
    /\ ~last.res.panic
    /\ Len(last.res.val.block_metas) >= 2
    /\ last.res.val.block_metas[1].first_key # last.res.val.block_metas[2].first_key

\* C19 (as claimed, S = 4096): the meta of block i of a built table has
\* offset = i * S + the length of the block's encoded bytes; while building,
\* size() of the current BlockBuilder is the length of encode(build()) of it
\* and cur_start is S times the number of blocks finalized so far.
C19_MetaOffsetIsSlotPlusSize ==
    /\ phase = "building" =>
         /\ BlockBuilderSize(builder.cur_block)
              = Len(BlockEncode(BlockBuilderBuild(builder.cur_block)))
         /\ builder.cur_start = 4096 * Len(builder.data_blocks)
         /\ \A i \in 1..Len(builder.meta) :
              builder.meta[i].offset
                = (i - 1) * 4096 + Len(BlockEncode(builder.data_blocks[i]))
    /\ phase = "built" =>
         \A i \in 1..Len(blocks) :
           table.block_metas[i].offset = (i - 1) * 4096 + Len(BlockEncode(blocks[i]))

\* C21 (as claimed, with the slot size the code uses): estimated_size() is the
\* slot size times the number of data blocks the builder holds, the
\* finalized ones plus the current one when it has an entry; a builder
\* without entries reports 0, and the value does not decrease from one add
\* to the next.
C21_EstimatedSize ==
    (phase = "building" /\ last.op = "estimated_size") =>
        /\ last.res = SLOT * Len(FinalizedBlocks(builder))
        /\ added = <<>> => last.res = 0

\* C23 (as claimed, for a table of non-empty keys): seek_to_key(k) on an
\* iterator at any position ends in the state create_and_seek_to_key(table, k)
\* ends in: the same block_idx, validity, key and value; and after either of
\* them block_idx designates a block of the table.
C23_SeekSameAsCreateAndSeek ==
    (ProperKeys /\ phase = "built"
       /\ last.op \in {"seek_to_key", "create_and_seek_to_key"}) =>
        LET created == SsTableCreateAndSeekToKey(table, last.key)
        IN  /\ ~created.panic
            /\ iter.block_idx = created.val.block_idx
            /\ SsTableIsValid(iter) = SsTableIsValid(created.val)
            /\ SsTableKey(iter) = SsTableKey(created.val)
            /\ SsTableValue(iter) = SsTableValue(created.val)
            /\ iter.block_idx < Len(table.block_metas)

\* C24 (as claimed, for a table of n >= 1 entries with non-empty keys): the
\* scan seek_to_first, then next() while is_valid(), runs without a failure
\* and is invalid after exactly n calls of next (the scan has then yielded n
\* entries, one from the seek and one from every next but the last), never
\* sooner; a next of the scan keeps block_idx, except from the last entry of
\* a block that is not the last, where block_idx grows by exactly one.
C24_ScanEndsAfterNNexts ==
    ProperKeys =>
        /\ phase = "panic" =>
              /\ last.op \notin {"create_and_seek_to_first", "seek_to_first"}
              /\ ~(last.op = "next" /\ scan # None /\ ~scan.done)
        /\ (phase = "built" /\ scan # None) =>
              /\ scan.done <=> ~SsTableIsValid(iter)
              /\ Len(scan.out) <= Len(added)
              /\ scan.done => Len(scan.out) = Len(added)
              /\ last.op = "next" =>
                    LET pbi == last.pre.cur_block_iterator
                        boundary == /\ pbi.idx + 1 = NumEntries(pbi.block)
                                    /\ last.pre.block_idx + 1 < Len(table.block_metas)
                    IN  iter.block_idx
                          = last.pre.block_idx + (IF boundary THEN 1 ELSE 0)

----------------------------------------------------------------------------
(* Properties of the pair machine *)

\* what an SsTableIterator it over t can hold after one operation of its own
AloneTable(t, it) ==
    LET rs == IF Live(it)
              THEN {SsTableSeekToFirst(t, it), SsTableNext(t, it)}
                     \cup {SsTableSeekToKey(t, it, k) : k \in PairKeys}
              ELSE {SsTableCreateAndSeekToFirst(t)}
    IN  {IF r.panic THEN Panic ELSE r.val : r \in rs}

\* what a BlockIterator it over b can hold after one operation of its own
AloneBlock(b, it) ==
    LET rs == IF Live(it)
              THEN {BlockSeekToFirst(it), BlockNext(it)}
                     \cup {BlockSeekToKey(it, k) : k \in PairKeys}
              ELSE {BlockCreateAndSeekToFirst(b)}
    IN  {IF r.panic THEN Panic ELSE r.val : r \in rs}

====
